---- MODULE Spec2Model ----
(***************************************************************************)
(* Sampled-softmax language-model training of                              *)
(* 07_language_model/softmax_approximation.ipynb: the sampler and model    *)
(* construction, train() with its per-batch steps, evaluate(), and the     *)
(* logits computed by the sampled and the full decoder.                    *)
(*                                                                         *)
(* Numbers.  Weights, hidden vectors and losses are real-valued in the     *)
(* program.  Parameters are modelled by the number of optimizer steps      *)
(* applied to them plus a flag saying whether every value is still finite. *)
(* A loss is a small positive integer or the non-finite value (NaN/Inf).   *)
(* Logits are handled through exact rational arithmetic on e^z.            *)
(***************************************************************************)
EXTENDS Integers, Sequences, FiniteSets, TLC

VARIABLES
    pc,              \* position in the notebook / in train() / in evaluate()
    vocab_size,      \* V, cell 6
    num_sampled,     \* K, cell 6
    epochs,          \* argument of train()
    train_len,       \* number of batches train_data yields per epoch
    val_len,         \* number of batches val_data yields
    storage,         \* parameter storage, by owning layer
    epoch,           \* loop variable of train()
    i,               \* batch index of train()
    hiddens,         \* recurrent state of train()
    y,               \* target labels of the current training batch
    sampled_values,  \* the draw of the candidate sampler
    output,          \* decoded logits of the last training forward
    new_target,      \* remapped targets of the last training forward
    L,               \* loss of the current training batch
    grads,           \* gradients held by the parameters
    total_L,         \* running loss sum of train()
    ev,              \* locals of evaluate()
    val_L,           \* value returned by the last evaluate()
    hist,            \* history: what has been executed (not program state)
    ez               \* e^logit per row and class (loss specification only)

vars == <<pc, vocab_size, num_sampled, epochs, train_len, val_len, storage,
          epoch, i, hiddens, y, sampled_values, output, new_target, L, grads,
          total_L, ev, val_L, hist, ez>>

---------------------------------------------------------------------------
(* Bounds of the model *)

MaxV == 2          \* vocab_size ranges over 1 .. MaxV
MaxK == 1          \* num_sampled ranges over 0 .. MaxK
MaxEpochs == 2     \* epochs ranges over 1 .. MaxEpochs
MaxBatches == 2    \* len(train_data), len(val_data) range over 1 .. MaxBatches
batch_rows == 2    \* rows of one batch (bptt * batch_size in the notebook)
log_interval == 1  \* reporting period of train()

LossVals == {1, 2}     \* finite values a batch loss takes
EzVals == {1, 2}       \* values of e^logit in the loss specification

---------------------------------------------------------------------------
(* Exact rational arithmetic: <<n, d>> with d > 0, kept in lowest terms *)

RECURSIVE GCD(_, _)
GCD(a, b) == IF b = 0 THEN a ELSE GCD(b, a % b)

RNorm(n, d) == LET g == GCD(n, d) IN <<n \div g, d \div g>>

RAdd(p, q) ==
    LET g == GCD(p[2], q[2])
        l == (p[2] \div g) * q[2]
    IN RNorm(p[1] * (l \div p[2]) + q[1] * (l \div q[2]), l)

RDiv(p, q) == RNorm(p[1] * q[2], p[2] * q[1])

RECURSIVE RSum(_)
RSum(s) == IF s = <<>> THEN <<0, 1>> ELSE RAdd(Head(s), RSum(Tail(s)))

RECURSIVE Pow(_, _)
Pow(b, e) == IF e = 0 THEN 1 ELSE b * Pow(b, e - 1)

---------------------------------------------------------------------------
(* Values *)

Classes(V) == 0 .. V - 1
Rows == 1 .. batch_rows

\* A scalar loss: finite with a value, or non-finite (NaN / Inf).
Finite(v) == [finite |-> TRUE, val |-> v]
NonFinite == [finite |-> FALSE, val |-> 0]
LAdd(a, b) == IF a.finite /\ b.finite THEN Finite(a.val + b.val) ELSE NonFinite

NoTag == <<0 - 1, 0 - 1>>
NoDraw == [sampled_classes |-> <<>>, expected_count_sampled |-> <<>>,
           expected_count_true |-> <<>>, by |-> NoTag]
NoOutput == [decoded |-> <<>>, layer |-> "none", by |-> NoTag]
NoTarget == [vals |-> <<>>, by |-> NoTag]

---------------------------------------------------------------------------
(* sampler.py: LogUniformSampler *)

\* 10 * ln(n), rounded: the logarithm the class probabilities are built from.
LogX10(n) == CASE n = 1 -> 0 [] n = 2 -> 7 [] n = 3 -> 11
               [] n = 4 -> 14 [] n = 5 -> 16 [] OTHER -> 18

\* P(c) = (log(c+2) - log(c+1)) / log(V+1)
ClassProb(c, V) == RNorm(LogX10(c + 2) - LogX10(c + 1), LogX10(V + 1))

\* expected_count(c) = 1 - (1 - P(c))^K
ExpectedCountOf(c, V, K) ==
    LET p == ClassProb(c, V)
    IN RNorm(Pow(p[2], K) - Pow(p[2] - p[1], K), Pow(p[2], K))

\* the expected counts of every configuration, computed once
ExpectedCountTable ==
    [V \in 1 .. MaxV |-> [K \in 0 .. MaxK |-> [c \in Classes(V) |->
        ExpectedCountOf(c, V, K)]]]

expected_count(c, V, K) == ExpectedCountTable[V][K][c]

\* LogUniformSampler(vocab_size, num_sampled): whether construction succeeds.
SamplerConfigOKOnlyK(V, K) == K > 0
SamplerConfigOK(V, K) == V > 1 /\ K > 0

\* candidate_sampler(y): the SampleDraw for labels lab when the K classes
\* drawn are s.
Draw(lab, s, V, K, tag) ==
    [sampled_classes |-> s,
     expected_count_sampled |-> [k \in 1 .. K |-> expected_count(s[k], V, K)],
     expected_count_true |-> [r \in DOMAIN lab |-> expected_count(lab[r], V, K)],
     by |-> tag]

\* the K classes one call can draw: independent draws, repeats allowed
Candidates(V, K) == [1 .. K -> Classes(V)]

---------------------------------------------------------------------------
(* utilities.py: detach *)

detach(h) == [h EXCEPT !.attached = FALSE]

---------------------------------------------------------------------------
(* RNNModel and its two decoders *)

\* self.sampled_decoder = model.ISDense(...): the layer owns its parameters.
SampledDecoderParams == "sampled_decoder"

\* self.decoder = nn.Dense(..., params=self.sampled_decoder.params)
DecoderOwnParams == "decoder"
DecoderParams == SampledDecoderParams

Layers == {"sampled_decoder", "decoder"}
InitParams == [ver |-> 0, finite |-> TRUE]

\* The class each column of a row's sampled logits scores: pred_true, then
\* pred_sampled for the K candidates of the draw, in draw order.
ColumnsNoTrue(yr, sampled) == sampled
Columns(yr, sampled) == <<yr>> \o sampled

\* new_targets of the sampled decoder: the column of pred_true.
NewTargets(lab) == [r \in DOMAIN lab |-> 0]

\* pred_true = e^(z - log(expected_count_true)), one per row
PredTrue(ezr, yr, q) == RDiv(<<ezr[yr], 1>>, q)

\* pred_sampled = e^(z - log(expected_count_sampled)), K per row
PredSampledUncorrected(ezr, sv) ==
    [k \in DOMAIN sv.sampled_classes |-> <<ezr[sv.sampled_classes[k]], 1>>]
PredSampled(ezr, sv) ==
    [k \in DOMAIN sv.sampled_classes |->
        RDiv(<<ezr[sv.sampled_classes[k]], 1>>, sv.expected_count_sampled[k])]

\* decoded row of the sampled decoder, as e^logit per column
SampledLogits(ezr, yr, r, sv) ==
    <<PredTrue(ezr, yr, sv.expected_count_true[r])>> \o PredSampled(ezr, sv)

\* decoded row of the full decoder: every class, no correction
FullLogits(ezr, V) == [c \in 1 .. V |-> <<ezr[c - 1], 1>>]

\* gluon.loss.SoftmaxCrossEntropyLoss on one row: the softmax probability of
\* column target (0-based); the loss is its negative logarithm.
SoftmaxCE(row, target) == RDiv(row[target + 1], RSum(row))

\* RNNModel.begin_state
begin_state(who, ep) ==
    [kind |-> "zeros", who |-> who, ep |-> ep, i |-> 0, attached |-> FALSE]

\* RNNModel.forward: the rnn consumes hidden and returns the next state; the
\* decoder is chosen by sample_mode.
forward(hidden, sample_mode, sv, lab, who, ep, idx, recording) ==
    LET h2 == [kind |-> "out", who |-> who, ep |-> ep, i |-> idx,
               attached |-> recording]
    IN IF sample_mode
       THEN [decoded |-> [r \in DOMAIN lab |-> Columns(lab[r], sv.sampled_classes)],
             layer |-> "sampled_decoder", reads |-> SampledDecoderParams,
             hidden |-> h2, new_targets |-> NewTargets(lab), draw |-> sv.by]
       ELSE [decoded |-> [r \in Rows |-> [c \in 1 .. vocab_size |-> c - 1]],
             layer |-> "decoder", reads |-> DecoderParams,
             hidden |-> h2, new_targets |-> <<>>, draw |-> NoTag]

---------------------------------------------------------------------------
(* Data and training-loop helpers *)

\* train_data: a fixed corpus, so batch idx carries the same targets in
\* every epoch.
train_target(idx) == [r \in Rows |-> (idx + r) % vocab_size]

\* statement order of the body of the batch loop of train()
TrainOrderStepBeforeClip ==
    <<"detach", "sample", "forward", "loss", "backward", "step", "clip", "report">>
TrainOrderNoSample ==
    <<"detach", "forward", "loss", "backward", "clip", "step", "report">>
TrainOrder ==
    <<"detach", "sample", "forward", "loss", "backward", "clip", "step", "report">>

\* where the batch loop goes once its body is done
AfterBodyEvaluate == "eval_call"
AfterBody == "batch_loop"

Index(seq, x) == CHOOSE k \in DOMAIN seq : seq[k] = x
Succ(p) == IF Index(TrainOrder, p) = Len(TrainOrder) THEN AfterBody
           ELSE TrainOrder[Index(TrainOrder, p) + 1]

\* hiddens at the start of an epoch
EpochHiddenCarried(h, ep) == IF ep = 0 THEN begin_state("train", ep) ELSE h
EpochHidden(h, ep) == begin_state("train", ep)

\* hidden at the start of evaluate()
EvalHidden(h, ep) == begin_state("eval", ep)

\* sample_mode of evaluate()
eval_sample_mode_on == TRUE
eval_sample_mode == FALSE

\* return total_L / ntotal
Mean(total, ntotal, nbatches) == [num |-> total, den |-> ntotal]

\* trainer.step(1): sgd on every parameter, with the gradients it holds
SgdStep(p, g) == [ver |-> p.ver + 1, finite |-> p.finite /\ g.finite]

Tag == <<epoch, i>>

\* if i % log_interval == 0 and i > 0
ReportDue(idx) == idx % log_interval = 0 /\ idx > 0

\* cur_L = total_L / log_interval, as printed by TRAIN_BATCH_LOG
CurL(total) == [num |-> total, den |-> log_interval]

NoReport == [at |-> NoTag, covers |-> <<>>, cur_L |-> CurL(Finite(0))]

InitHist ==
    [ops |-> <<>>, ndraws |-> 0, nsteps |-> 0, steps_in_epoch |-> 0,
     evals_started |-> 0, evals_done |-> 0, evals_in_epoch |-> 0,
     fwd_hidden |-> begin_state("none", 0), fwd_draw |-> NoTag,
     loss_by |-> NoTag, visited |-> NoTag,
     diverged |-> FALSE,
     snap_storage |-> [l \in Layers |-> InitParams],
     snap_hiddens |-> begin_state("none", 0), snap_draws |-> 0,
     snap_steps |-> 0, draws_total |-> 0, backwards_total |-> 0,
     snap_backwards |-> 0,
     eval_layers |-> {}, eval_losses |-> <<>>, eval_fwd_hidden |-> <<>>,
     eval_idx |-> 0,
     acc |-> <<>>, report |-> NoReport]

NoEv == [hidden |-> begin_state("none", 0), idx |-> 0, total_L |-> Finite(0),
         ntotal |-> 0, sample_mode |-> FALSE]

---------------------------------------------------------------------------
(* The notebook run: construction, train(), evaluate() *)

Init ==
    /\ pc = "create_sampler"
    /\ vocab_size \in 1 .. MaxV
    /\ num_sampled \in 0 .. MaxK
    /\ epochs \in 1 .. MaxEpochs
    /\ train_len \in 1 .. MaxBatches
    /\ val_len \in 1 .. MaxBatches
    /\ storage = [l \in Layers |-> InitParams]
    /\ epoch = 0
    /\ i = 0
    /\ hiddens = begin_state("none", 0)
    /\ y = <<>>
    /\ sampled_values = NoDraw
    /\ output = NoOutput
    /\ new_target = NoTarget
    /\ L = Finite(0)
    /\ grads = [finite |-> TRUE, clipped |-> FALSE]
    /\ total_L = Finite(0)
    /\ ev = NoEv
    /\ val_L = [num |-> Finite(0), den |-> 0]
    /\ hist = InitHist
    /\ ez = <<>>

\* candidate_sampler = LogUniformSampler(vocab_size, num_sampled)
CreateSampler ==
    /\ pc = "create_sampler"
    /\ pc' = IF SamplerConfigOK(vocab_size, num_sampled)
             THEN "create_model" ELSE "ConfigurationError"
    /\ UNCHANGED <<vocab_size, num_sampled, epochs, train_len, val_len, storage,
                   epoch, i, hiddens, y, sampled_values, output, new_target, L,
                   grads, total_L, ev, val_L, hist, ez>>

\* net = RNNModel(...); net.initialize(...); trainer = gluon.Trainer(...)
CreateModel ==
    /\ pc = "create_model"
    /\ storage' = [l \in Layers |-> InitParams]
    /\ pc' = "idle"
    /\ UNCHANGED <<vocab_size, num_sampled, epochs, train_len, val_len,
                   epoch, i, hiddens, y, sampled_values, output, new_target, L,
                   grads, total_L, ev, val_L, hist, ez>>

\* train(net, loss, train_data, val_data, epochs, lr, candidate_sampler)
TrainCall ==
    /\ pc = "idle"
    /\ epoch' = 0
    /\ pc' = "epoch_loop"
    /\ UNCHANGED <<vocab_size, num_sampled, epochs, train_len, val_len, storage,
                   i, hiddens, y, sampled_values, output, new_target, L,
                   grads, total_L, ev, val_L, hist, ez>>

\* for epoch in range(epochs): total_L = 0.0; hiddens = net.begin_state(...)
EpochBegin ==
    /\ pc = "epoch_loop"
    /\ epoch < epochs
    /\ total_L' = Finite(0)
    /\ hiddens' = EpochHidden(hiddens, epoch)
    /\ i' = 0
    /\ hist' = [hist EXCEPT !.steps_in_epoch = 0, !.evals_in_epoch = 0,
                            !.eval_layers = {}, !.eval_losses = <<>>,
                            !.eval_fwd_hidden = <<>>,
                            !.acc = <<>>, !.report = NoReport]
    /\ pc' = "batch_loop"
    /\ UNCHANGED <<vocab_size, num_sampled, epochs, train_len, val_len, storage,
                   epoch, y, sampled_values, output, new_target, L,
                   grads, ev, val_L, ez>>

\* range(epochs) is exhausted: print(TOTAL_LOG ...) and return
TrainReturn ==
    /\ pc = "epoch_loop"
    /\ epoch >= epochs
    /\ pc' = "done"
    /\ UNCHANGED <<vocab_size, num_sampled, epochs, train_len, val_len, storage,
                   epoch, i, hiddens, y, sampled_values, output, new_target, L,
                   grads, total_L, ev, val_L, hist, ez>>

\* for i, (data, target) in enumerate(train_data): the next batch
BatchFetch ==
    /\ pc = "batch_loop"
    /\ i < train_len
    /\ y' = train_target(i)
    /\ hist' = [hist EXCEPT !.ops = <<>>, !.ndraws = 0, !.visited = Tag,
                            !.report = NoReport]
    /\ pc' = TrainOrder[1]
    /\ UNCHANGED <<vocab_size, num_sampled, epochs, train_len, val_len, storage,
                   epoch, i, hiddens, sampled_values, output, new_target, L,
                   grads, total_L, ev, val_L, ez>>

\* train_data is exhausted: mx.nd.waitall()
BatchesDone ==
    /\ pc = "batch_loop"
    /\ i >= train_len
    /\ pc' = "eval_call"
    /\ hist' = [hist EXCEPT !.report = NoReport]
    /\ UNCHANGED <<vocab_size, num_sampled, epochs, train_len, val_len, storage,
                   epoch, i, hiddens, y, sampled_values, output, new_target, L,
                   grads, total_L, ev, val_L, ez>>

\* hiddens = detach(hiddens); L = 0
Detach ==
    /\ pc = "detach"
    /\ hiddens' = detach(hiddens)
    /\ L' = Finite(0)
    /\ hist' = [hist EXCEPT !.ops = Append(@, "detach")]
    /\ pc' = Succ("detach")
    /\ UNCHANGED <<vocab_size, num_sampled, epochs, train_len, val_len, storage,
                   epoch, i, y, sampled_values, output, new_target,
                   grads, total_L, ev, val_L, ez>>

\* sampled_values = candidate_sampler(y)
Sample ==
    /\ pc = "sample"
    /\ \E s \in Candidates(vocab_size, num_sampled) :
            sampled_values' = Draw(y, s, vocab_size, num_sampled, Tag)
    /\ hist' = [hist EXCEPT !.ops = Append(@, "sample"), !.ndraws = @ + 1,
                            !.draws_total = @ + 1]
    /\ pc' = Succ("sample")
    /\ UNCHANGED <<vocab_size, num_sampled, epochs, train_len, val_len, storage,
                   epoch, i, hiddens, y, output, new_target, L,
                   grads, total_L, ev, val_L, ez>>

\* output, hiddens, new_target = net(X, hiddens, sample_mode, sampled_values, y)
Forward ==
    /\ pc = "forward"
    /\ LET f == forward(hiddens, TRUE, sampled_values, y, "train", epoch, i, TRUE)
       IN /\ output' = [decoded |-> f.decoded, layer |-> f.layer, by |-> Tag]
          /\ new_target' = [vals |-> f.new_targets, by |-> Tag]
          /\ hiddens' = f.hidden
          /\ hist' = [hist EXCEPT !.ops = Append(@, "forward"),
                                  !.fwd_hidden = hiddens, !.fwd_draw = f.draw]
    /\ pc' = Succ("forward")
    /\ UNCHANGED <<vocab_size, num_sampled, epochs, train_len, val_len, storage,
                   epoch, i, y, sampled_values, L,
                   grads, total_L, ev, val_L, ez>>

\* the values a loss can take when computed from parameters p
LossValues(p) ==
    IF p.finite THEN {Finite(v) : v \in LossVals} \cup {NonFinite}
    ELSE {NonFinite}

\* the values mx.nd.sum(L) can take in evaluate(), computed from parameters p
EvalLossValues(p) ==
    IF p.finite THEN {Finite(v) : v \in LossVals} ELSE {NonFinite}

\* batch_L = loss(output, new_target); L = L + batch_L / X.size
Loss ==
    /\ pc = "loss"
    /\ \E v \in LossValues(storage[SampledDecoderParams]) :
          /\ L' = LAdd(L, v)
          /\ hist' = [hist EXCEPT
                !.ops = Append(@, "loss"),
                !.loss_by = IF output.by = new_target.by THEN output.by ELSE NoTag,
                !.diverged = @ \/ ~v.finite]
    /\ pc' = Succ("loss")
    /\ UNCHANGED <<vocab_size, num_sampled, epochs, train_len, val_len, storage,
                   epoch, i, hiddens, y, sampled_values, output, new_target,
                   grads, total_L, ev, val_L, ez>>

\* L.backward()
Backward ==
    /\ pc = "backward"
    /\ grads' = [finite |-> L.finite, clipped |-> FALSE]
    /\ hist' = [hist EXCEPT !.ops = Append(@, "backward"),
                            !.backwards_total = @ + 1]
    /\ pc' = Succ("backward")
    /\ UNCHANGED <<vocab_size, num_sampled, epochs, train_len, val_len, storage,
                   epoch, i, hiddens, y, sampled_values, output, new_target, L,
                   total_L, ev, val_L, ez>>

\* grads = [p.grad(context) ...]; gluon.utils.clip_global_norm(grads, grad_clip)
Clip ==
    /\ pc = "clip"
    /\ grads' = [grads EXCEPT !.clipped = TRUE]
    /\ hist' = [hist EXCEPT !.ops = Append(@, "clip")]
    /\ pc' = Succ("clip")
    /\ UNCHANGED <<vocab_size, num_sampled, epochs, train_len, val_len, storage,
                   epoch, i, hiddens, y, sampled_values, output, new_target, L,
                   total_L, ev, val_L, ez>>

\* trainer.step(1)
Step ==
    /\ pc = "step"
    /\ storage' = [storage EXCEPT ![SampledDecoderParams] = SgdStep(@, grads)]
    /\ hist' = [hist EXCEPT !.ops = Append(@, "step"), !.nsteps = @ + 1,
                            !.steps_in_epoch = @ + 1]
    /\ pc' = Succ("step")
    /\ UNCHANGED <<vocab_size, num_sampled, epochs, train_len, val_len,
                   epoch, i, hiddens, y, sampled_values, output, new_target, L,
                   grads, total_L, ev, val_L, ez>>

\* total_L += L.sum().asscalar(); the report every log_interval batches
Report ==
    /\ pc = "report"
    /\ LET tl == LAdd(total_L, L)
           covered == Append(hist.acc, i)
       IN /\ total_L' = IF ReportDue(i) THEN Finite(0) ELSE tl
          /\ hist' = IF ReportDue(i)
                     THEN [hist EXCEPT !.ops = Append(@, "report"),
                                       !.acc = <<>>,
                                       !.report = [at |-> Tag,
                                                   covers |-> covered,
                                                   cur_L |-> CurL(tl)]]
                     ELSE [hist EXCEPT !.ops = Append(@, "report"),
                                       !.acc = covered]
    /\ i' = i + 1
    /\ pc' = Succ("report")
    /\ UNCHANGED <<vocab_size, num_sampled, epochs, train_len, val_len, storage,
                   epoch, hiddens, y, sampled_values, output, new_target, L,
                   grads, ev, val_L, ez>>

\* val_L = evaluate(net, loss, val_data, batch_size, context): entry
EvalCall ==
    /\ pc = "eval_call"
    /\ ev' = [hidden |-> EvalHidden(hiddens, epoch), idx |-> 0,
              total_L |-> Finite(0), ntotal |-> 0, sample_mode |-> FALSE]
    /\ hist' = [hist EXCEPT !.evals_started = @ + 1,
                            !.snap_storage = storage, !.snap_hiddens = hiddens,
                            !.snap_draws = hist.draws_total,
                            !.snap_steps = hist.nsteps,
                            !.snap_backwards = hist.backwards_total,
                            !.eval_layers = {}, !.eval_losses = <<>>,
                            !.eval_fwd_hidden = <<>>]
    /\ pc' = "eval_loop"
    /\ UNCHANGED <<vocab_size, num_sampled, epochs, train_len, val_len, storage,
                   epoch, i, hiddens, y, sampled_values, output, new_target, L,
                   grads, total_L, val_L, ez>>

\* one pass of the loop of evaluate()
EvalBatch ==
    /\ pc = "eval_loop"
    /\ ev.idx < val_len
    /\ LET f == forward(ev.hidden, eval_sample_mode, sampled_values, y,
                        "eval", epoch, ev.idx, FALSE)
       IN \E v \in EvalLossValues(storage[f.reads]) :
            /\ ev' = [hidden |-> f.hidden, idx |-> ev.idx + 1,
                      total_L |-> LAdd(ev.total_L, v),
                      ntotal |-> ev.ntotal + batch_rows,
                      sample_mode |-> eval_sample_mode]
            /\ hist' = [hist EXCEPT !.eval_layers = @ \cup {f.layer},
                                    !.eval_losses = Append(@, v),
                                    !.eval_fwd_hidden = Append(@, ev.hidden)]
    /\ UNCHANGED <<pc, vocab_size, num_sampled, epochs, train_len, val_len,
                   storage, epoch, i, hiddens, y, sampled_values, output,
                   new_target, L, grads, total_L, val_L, ez>>

\* return total_L / ntotal, and the epoch's report in train()
EvalReturn ==
    /\ pc = "eval_loop"
    /\ ev.idx >= val_len
    /\ val_L' = Mean(ev.total_L, ev.ntotal, ev.idx)
    /\ hist' = [hist EXCEPT !.evals_done = @ + 1, !.evals_in_epoch = @ + 1,
                            !.eval_idx = ev.idx]
    /\ epoch' = epoch + 1
    /\ pc' = "epoch_loop"
    /\ ev' = NoEv
    /\ UNCHANGED <<vocab_size, num_sampled, epochs, train_len, val_len, storage,
                   i, hiddens, y, sampled_values, output, new_target, L,
                   grads, total_L, ez>>

Next ==
    \/ CreateSampler \/ CreateModel \/ TrainCall
    \/ EpochBegin \/ TrainReturn \/ BatchFetch \/ BatchesDone
    \/ Detach \/ Sample \/ Forward \/ Loss \/ Backward \/ Clip \/ Step \/ Report
    \/ EvalCall \/ EvalBatch \/ EvalReturn

Spec == Init /\ [][Next]_vars

\* train() and evaluate() are sequential code: a step that can be taken is taken.
FairSpec == Spec /\ WF_vars(Next)

---------------------------------------------------------------------------
(* The two decoders as functions: one batch through the sampled decoder and
   its loss (the training path), then through the full decoder and its loss
   (the evaluation path), for the same parameters and hidden vectors.  ez[r][c]
   is e^logit of class c for row r, L and val_L hold one softmax probability
   of the target per row. *)

InitLoss ==
    /\ pc = "sampled_forward"
    /\ vocab_size \in 2 .. MaxV
    /\ num_sampled \in 1 .. MaxK
    /\ epochs = 1
    /\ train_len = 1
    /\ val_len = 1
    /\ storage = [l \in Layers |-> InitParams]
    /\ epoch = 0
    /\ i = 0
    /\ hiddens = begin_state("train", 0)
    /\ y \in [Rows -> Classes(vocab_size)]
    /\ \E s \in Candidates(vocab_size, num_sampled) :
          sampled_values = Draw(y, s, vocab_size, num_sampled, Tag)
    /\ output = NoOutput
    /\ new_target = NoTarget
    /\ L = <<>>
    /\ grads = [finite |-> TRUE, clipped |-> FALSE]
    /\ total_L = Finite(0)
    /\ ev = NoEv
    /\ val_L = <<>>
    /\ hist = InitHist
    /\ ez \in [Rows -> [Classes(vocab_size) -> EzVals]]

\* output, hiddens, new_target = net(X, hiddens, True, sampled_values, y)
LossForwardSampled ==
    /\ pc = "sampled_forward"
    /\ LET f == forward(hiddens, TRUE, sampled_values, y, "train", epoch, i, TRUE)
       IN /\ output' = [decoded |-> f.decoded, layer |-> f.layer, by |-> Tag,
                        logits |-> [r \in Rows |->
                            SampledLogits(ez[r], y[r], r, sampled_values)]]
          /\ new_target' = [vals |-> f.new_targets, by |-> Tag]
          /\ hiddens' = f.hidden
    /\ pc' = "sampled_loss"
    /\ UNCHANGED <<vocab_size, num_sampled, epochs, train_len, val_len, storage,
                   epoch, i, y, sampled_values, L, grads, total_L, ev, val_L,
                   hist, ez>>

\* batch_L = loss(output, new_target)
LossSampled ==
    /\ pc = "sampled_loss"
    /\ L' = [r \in Rows |-> SoftmaxCE(output.logits[r], new_target.vals[r])]
    /\ pc' = "full_forward"
    /\ UNCHANGED <<vocab_size, num_sampled, epochs, train_len, val_len, storage,
                   epoch, i, hiddens, y, sampled_values, output, new_target,
                   grads, total_L, ev, val_L, hist, ez>>

\* output, hidden = net(batch_data, hidden, False); L = loss(output, batch_target)
LossFull ==
    /\ pc = "full_forward"
    /\ val_L' = [r \in Rows |-> SoftmaxCE(FullLogits(ez[r], vocab_size), y[r])]
    /\ pc' = "loss_done"
    /\ UNCHANGED <<vocab_size, num_sampled, epochs, train_len, val_len, storage,
                   epoch, i, hiddens, y, sampled_values, output, new_target, L,
                   grads, total_L, ev, hist, ez>>

NextLoss == LossForwardSampled \/ LossSampled \/ LossFull

SpecLoss == InitLoss /\ [][NextLoss]_vars

---------------------------------------------------------------------------
(* Helpers of the properties *)

RECURSIVE Dedup(_, _)
\* s without repeats, first occurrences kept; seen is what came before
Dedup(s, seen) ==
    IF s = <<>> THEN <<>>
    ELSE IF Head(s) \in seen THEN Dedup(Tail(s), seen)
         ELSE <<Head(s)>> \o Dedup(Tail(s), seen \cup {Head(s)})

Range(s) == {s[k] : k \in DOMAIN s}

BodyPcs == {"detach", "sample", "forward", "loss", "backward", "clip", "step",
            "report"}

Did(op) == \E k \in DOMAIN hist.ops : hist.ops[k] = op

IsPrefix(s, t) == Len(s) <= Len(t) /\ s = SubSeq(t, 1, Len(s))

RECURSIVE SumL(_)
SumL(s) == IF s = <<>> THEN Finite(0) ELSE LAdd(Head(s), SumL(Tail(s)))

BatchSteps == <<"detach", "sample", "forward", "loss", "backward", "clip", "step">>
OpsOfBatch == SelectSeq(hist.ops, LAMBDA o : o # "report")

---------------------------------------------------------------------------
(* C1: the full decoder reads the storage the sampled decoder owns: in every
   state the two layers hold the same parameter values, and the values the
   full decoder reads carry every optimizer step applied so far through the
   sampled path. *)
C1_SharedParameters ==
    /\ storage[DecoderParams] = storage[SampledDecoderParams]
    /\ storage[DecoderParams].ver = hist.nsteps

C1_Witness ==
    /\ pc = "eval_loop"
    /\ ev.idx >= 1
    /\ hist.nsteps >= 2
    /\ "decoder" \in hist.eval_layers

(* C2: evaluate() runs only between epochs: it is entered after the optimizer
   step of the epoch's last batch, no optimizer step happens while it runs,
   it has returned before any batch of the next epoch, and it runs exactly
   once per epoch. *)
C2_EvalAtEpochBoundary ==
    /\ pc = "eval_loop" =>
          /\ hist.steps_in_epoch = train_len
          /\ i = train_len
          /\ OpsOfBatch = BatchSteps
          /\ hist.nsteps = hist.snap_steps
          /\ storage = hist.snap_storage
          /\ hist.evals_started = epoch + 1
          /\ hist.evals_done = epoch
    /\ pc \in BodyPcs \cup {"batch_loop", "eval_call"} =>
          /\ hist.evals_started = epoch
          /\ hist.evals_done = epoch
          /\ hist.evals_in_epoch = 0
    /\ pc = "epoch_loop" => hist.evals_done = epoch /\ hist.evals_started = epoch
    /\ pc = "done" => hist.evals_done = epochs

C2_Witness ==
    /\ pc = "eval_loop"
    /\ epoch = 1
    /\ ev.idx = 1
    /\ train_len = 2

(* C3: in every batch of train() the steps detach, draw, forward, loss,
   backward, clip, optimizer step happen once each and in that order; the
   optimizer step comes after the clipping of that batch's gradients and the
   forward pass consumes a detached hidden state. *)
C3_BatchStepOrder ==
    /\ IsPrefix(OpsOfBatch, BatchSteps)
    /\ (pc \in {"batch_loop", "report"} /\ hist.ops # <<>>) => OpsOfBatch = BatchSteps
    /\ Did("forward") => ~hist.fwd_hidden.attached
    /\ Did("step") => grads.clipped

C3_Witness ==
    /\ pc = "batch_loop"
    /\ i = 2
    /\ OpsOfBatch = BatchSteps
    /\ hist.fwd_hidden.kind = "out"

(* C4: evaluate() only runs forward passes of the full decoder: it never
   uses the sampled decoder, never draws candidates, never runs backward or
   an optimizer step, leaves the parameters and the hidden state of train()
   as they were, and returns the accumulated loss sum over the accumulated
   token count. *)
C4_EvaluatePure ==
    /\ pc = "eval_loop" =>
          /\ hist.eval_layers \subseteq {"decoder"}
          /\ ev.sample_mode = FALSE
          /\ hist.draws_total = hist.snap_draws
          /\ hist.backwards_total = hist.snap_backwards
          /\ hist.nsteps = hist.snap_steps
          /\ storage = hist.snap_storage
          /\ hiddens = hist.snap_hiddens
    /\ (pc \in {"epoch_loop", "done"} /\ hist.evals_done > 0) =>
          /\ hist.eval_layers \subseteq {"decoder"}
          /\ hist.draws_total = hist.snap_draws
          /\ hist.backwards_total = hist.snap_backwards
          /\ hist.nsteps = hist.snap_steps
          /\ storage = hist.snap_storage
          /\ hiddens = hist.snap_hiddens
          /\ Len(hist.eval_losses) = val_len
          /\ val_L = [num |-> SumL(hist.eval_losses),
                      den |-> Len(hist.eval_losses) * batch_rows]

C4_Witness ==
    /\ pc = "epoch_loop"
    /\ hist.evals_done = 1
    /\ Len(hist.eval_losses) = 2
    /\ val_L.num = Finite(3)
    /\ hist.nsteps > 0

(* C5: a training batch whose loss is non-finite ends the run: no optimizer
   step is applied for that batch and no later batch is processed. *)
C5_DivergenceIsFatal ==
    hist.diverged => (~L.finite /\ Did("loss") /\ ~Did("step"))

(* C6: constructing the sampler with num_sampled <= 0 or vocab_size <= 1
   fails with ConfigurationError before any draw or training step; with
   vocab_size > 1 and num_sampled > 0 it succeeds. *)
C6_SamplerConfiguration ==
    /\ (num_sampled <= 0 \/ vocab_size <= 1) =>
          /\ pc \in {"create_sampler", "ConfigurationError"}
          /\ hist.draws_total = 0
          /\ hist.nsteps = 0
    /\ (num_sampled > 0 /\ vocab_size > 1) => pc # "ConfigurationError"

C6_Witness ==
    /\ pc = "ConfigurationError"
    /\ num_sampled = 0
    /\ vocab_size > 1

(* C7 as stated: the columns of the sampled logits are the de-duplicated list
   U = true_labels ++ sampled_classes, and remapped_targets[r] is the position
   of true_labels[r] in U. *)
UniqueCandidates == Dedup(y \o sampled_values.sampled_classes, {})

C8_OneDrawPerStep ==
    /\ Did("forward") =>
          /\ hist.ndraws = 1
          /\ hist.fwd_draw = hist.visited
    /\ (Did("forward") /\ pc \in BodyPcs) =>
          /\ output.by = hist.visited
          /\ sampled_values.by = hist.visited
          /\ \A r \in Rows :
                SubSeq(output.decoded[r], 2, Len(output.decoded[r]))
                    = sampled_values.sampled_classes
    /\ Did("loss") => hist.loss_by = hist.visited
    /\ Did("step") => hist.ndraws = 1

C8_Witness ==
    /\ pc = "backward"
    /\ hist.visited = <<1, 1>>
    /\ hist.loss_by = <<1, 1>>
    /\ hist.ndraws = 1

(* C9 as stated: when K = V - 1 and the sampled candidates are exactly the
   classes other than the row's true label, the loss of the sampled decoder
   equals the loss of the full decoder. *)
Covered(r) ==
    /\ num_sampled = vocab_size - 1
    /\ Range(sampled_values.sampled_classes) = Classes(vocab_size) \ {y[r]}

C9_SampledEqualsFull ==
    pc = "loss_done" => \A r \in Rows : Covered(r) => L[r] = val_L[r]

(* C9, amended: under the same coverage the loss of the sampled decoder
   equals the softmax cross-entropy over the whole vocabulary of the logits
   with log(expected_count(c)) subtracted from every class c. *)
FullCorrected(ezr) ==
    [c \in 1 .. vocab_size |->
        RDiv(<<ezr[c - 1], 1>>, expected_count(c - 1, vocab_size, num_sampled))]

C9_SampledEqualsCorrectedFull ==
    pc \in {"full_forward", "loss_done"} =>
        \A r \in Rows : Covered(r) => L[r] = SoftmaxCE(FullCorrected(ez[r]), y[r])

C9_Witness ==
    /\ pc = "loss_done"
    /\ \A r \in Rows : Covered(r)
    /\ y[1] = 0
    /\ L[1] # val_L[1]

(* C10: train() moves Idle -> Running(epoch, batch) -> Evaluating(epoch) ->
   Running(epoch + 1, 0) or Done, visiting epochs and batch indices in
   increasing order; it reaches Done with exactly epochs * train_len
   optimizer steps and epochs evaluations; the hidden state is zeros at the
   first batch of every epoch and at the first batch of every evaluation, and
   is otherwise the state returned by the previous batch. *)
PhaseOf(p, e, b) ==
    CASE p \in {"create_sampler", "create_model", "ConfigurationError"} -> <<"Setup", 0, 0>>
      [] p = "idle" -> <<"Idle", 0, 0>>
      [] p = "epoch_loop" -> IF e < epochs THEN <<"Running", e, 0>> ELSE <<"Done", 0, 0>>
      [] p = "batch_loop" -> IF b < train_len THEN <<"Running", e, b>>
                             ELSE <<"Evaluating", e, 0>>
      [] p \in BodyPcs -> <<"Running", e, b>>
      [] p \in {"eval_call", "eval_loop"} -> <<"Evaluating", e, 0>>
      [] OTHER -> <<"Done", 0, 0>>

PhaseStep(a, b) ==
    \/ a = b
    \/ a[1] = "Setup" /\ b[1] = "Idle"
    \/ a[1] = "Idle" /\ b = <<"Running", 0, 0>>
    \/ a[1] = "Running" /\ b = <<"Running", a[2], a[3] + 1>>
    \/ a[1] = "Running" /\ a[3] = train_len - 1 /\ b = <<"Evaluating", a[2], 0>>
    \/ a[1] = "Evaluating" /\ b = <<"Running", a[2] + 1, 0>>
    \/ a[1] = "Evaluating" /\ a[2] = epochs - 1 /\ b = <<"Done", 0, 0>>

HiddenCarried ==
    /\ (Did("forward") /\ pc \in BodyPcs) =>
          hist.fwd_hidden =
              IF i = 0 THEN begin_state("train", epoch)
              ELSE [kind |-> "out", who |-> "train", ep |-> epoch, i |-> i - 1,
                    attached |-> FALSE]
    /\ pc = "eval_loop" =>
          \A k \in DOMAIN hist.eval_fwd_hidden :
              hist.eval_fwd_hidden[k] =
                  IF k = 1 THEN begin_state("eval", epoch)
                  ELSE [kind |-> "out", who |-> "eval", ep |-> epoch, i |-> k - 2,
                        attached |-> FALSE]

TrainDone ==
    /\ pc = "done"
    /\ hist.nsteps = epochs * train_len
    /\ hist.evals_done = epochs

C10_TrainStateMachine ==
    /\ [][PhaseStep(PhaseOf(pc, epoch, i), PhaseOf(pc', epoch', i'))]_vars
    /\ [](HiddenCarried)
    /\ [](pc = "done" => TrainDone)
    /\ (pc = "idle") ~> TrainDone

C10_Witness ==
    /\ TrainDone
    /\ epochs = 2
    /\ train_len = 2
    /\ val_len = 2
    /\ hist.nsteps = 4

(* C11: whenever train() prints a batch report (at batch index i with i > 0
   and i divisible by log_interval), the running sum total_L divided by
   log_interval holds the losses of exactly log_interval batches, those
   processed since the previous report or since the start of the epoch, and
   total_L is reset to 0 at each report and at each epoch start. *)
Reported == hist.report # NoReport

C11_ReportCoversLogInterval ==
    /\ Reported =>
          /\ Len(hist.report.covers) = log_interval
          /\ hist.report.covers =
                 [k \in 1 .. log_interval |->
                     hist.report.at[2] - log_interval + k]
          /\ hist.report.cur_L.den = Len(hist.report.covers)
          /\ total_L = Finite(0)
    /\ (pc = "batch_loop" /\ i = 0) => total_L = Finite(0)

====
